---- MODULE Spec2Model ----
(***************************************************************************)
(* Model of scripts/traffic-api-docs-generator.py: the class               *)
(* TrafficAPIDocsGenerator (loader, validator, format generators, report   *)
(* builder) and the command-line driver main().                            *)
(*                                                                         *)
(* Two specifications share the generator object's fields:                 *)
(*   Spec           one run of main(), from argument parsing to exit;      *)
(*   SpecValidator  a caller holding one generator object and calling      *)
(*                  load_openapi_spec / validate_openapi_spec on it.       *)
(***************************************************************************)
EXTENDS Integers, Sequences, FiniteSets, TLC

(***************************************************************************)
(* Bounds of the model.                                                    *)
(***************************************************************************)
\* longest `parameters` list of an operation
MaxParams == 1
\* most calls a caller makes on one generator object (SpecValidator)
MaxCalls == 2

(***************************************************************************)
(* Documents.  A parsed OpenAPI document is a mapping; the model keeps the  *)
(* parts the program reads: the top-level keys, the keys of `info`, the    *)
(* `paths` mapping in insertion order, and `components`.                   *)
(***************************************************************************)
required_fields == <<"openapi", "info", "paths">>

info_required == <<"title", "version">>

expected_endpoints ==
    << "/traffic/flow",
       "/traffic-lights/{intersection_id}",
       "/congestion/alerts",
       "/routes/optimize" >>

\* The data models and the security scheme type the specification names; the
\* validator of this file never reads `components`.
RequiredModels == {"TrafficFlow", "TrafficIncident", "TrafficSignal"}

\* The path strings of the model, cut at "/" so that the substring test
\* `'{intersection_id}' in path` can be computed.
Segments(path) ==
    CASE path = "/traffic/flow" -> <<"traffic", "flow">>
      [] path = "/traffic-lights/{intersection_id}" -> <<"traffic-lights", "{intersection_id}">>
      [] path = "/congestion/alerts" -> <<"congestion", "alerts">>
      [] path = "/routes/optimize" -> <<"routes", "optimize">>
      [] OTHER -> <<>>

\* '{intersection_id}' in path
ContainsIntersectionId(path) ==
    \E i \in 1..Len(Segments(path)) : Segments(path)[i] = "{intersection_id}"

\* HTTP methods an item of `paths` may carry, in the order the mapping holds them
Methods == <<"get", "put">>

\* entries of a `parameters` list
Params ==
    { [name |-> "intersection_id", in |-> "path"],
      [name |-> "intersection_id", in |-> "query"] }

SeqsUpTo(S, n) == UNION { [1..k -> S] : k \in 0..n }

\* an operation: whether it has the key `parameters`, and the list under it
Operations ==
    { [hasParameters |-> FALSE, parameters |-> <<>>] } \cup
    { [hasParameters |-> TRUE, parameters |-> ps] : ps \in SeqsUpTo(Params, MaxParams) }

\* The order-preserving sub-sequences of a sequence.
RECURSIVE SubSeqs(_)
SubSeqs(s) ==
    IF s = <<>> THEN { <<>> }
    ELSE LET rest == SubSeqs(Tail(s))
         IN  rest \cup { <<Head(s)>> \o r : r \in rest }

\* the operations of one path item, as a sequence of [method, op] in mapping order
MethodMaps(path) ==
    IF ContainsIntersectionId(path)
    THEN UNION { { [i \in 1..Len(ms) |-> [method |-> ms[i], op |-> f[i]]] :
                     f \in [1..Len(ms) -> Operations] } : ms \in SubSeqs(Methods) }
    ELSE { << [method |-> "get", op |-> [hasParameters |-> FALSE, parameters |-> <<>>]] >> }

\* the `paths` mappings: the keys are a sub-sequence of expected_endpoints
RECURSIVE PathMaps(_)
PathMaps(ps) ==
    IF ps = <<>> THEN { <<>> }
    ELSE LET rest == PathMaps(Tail(ps))
         IN  rest \cup
             { << [path |-> Head(ps), methods |-> m] >> \o r :
                 m \in MethodMaps(Head(ps)), r \in rest }

\* what yaml.safe_load / json.load give for an empty YAML file: None
NoneDoc ==
    [typ |-> "NoneType", keys |-> {}, info |-> {}, paths |-> <<>>,
     schemas |-> {}, apiKey |-> FALSE]

DocsWith(schemaSets, apiKeys) ==
    { d \in [typ : {"dict"},
             keys : SUBSET {"openapi", "info", "paths"},
             info : SUBSET {"title", "version"},
             paths : PathMaps(expected_endpoints),
             schemas : schemaSets,
             apiKey : apiKeys] :
        /\ ("info" \notin d.keys => d.info = {})
        /\ ("paths" \notin d.keys => d.paths = <<>>) }

Docs == DocsWith(SUBSET RequiredModels, BOOLEAN)

\* The file at openapi_path: missing, unreadable, not valid syntax, or parsed.
FilesOf(docs) ==
    { [status |-> s, content |-> NoneDoc] : s \in {"missing", "unreadable", "syntax"} }
    \cup { [status |-> "ok", content |-> d] : d \in docs \cup {NoneDoc} }

(***************************************************************************)
(* Messages appended to errors and warnings: the fixed text and the value  *)
(* the f-string interpolates.                                              *)
(***************************************************************************)
Msg(text, arg) == [text |-> text, arg |-> arg]

Mentions(msg, word) == msg.arg = word

(***************************************************************************)
(* State.                                                                  *)
(***************************************************************************)
VARIABLES
    file,        \* the file at openapi_path
    spec,        \* self.spec
    errors,      \* self.errors
    warnings,    \* self.warnings
    calls,       \* SpecValidator: calls made on the generator object so far
    lastCall,    \* SpecValidator: the method called last
    ret,         \* SpecValidator: what the last call returned ("raised": it raised)
    pc,          \* Spec: main()'s position
    args,        \* Spec: the parsed command line
    env,         \* Spec: the template file and redoc-cli, as main() finds them
    created,     \* Spec: what this run created on the filesystem
    report,      \* Spec: the content of validation-report.md written by this run
    printed,     \* Spec: the error lines main() printed
    attempted,   \* Spec: the generator methods main() called, in order
    htmlRuns,    \* Spec: how many times generate_html_docs ran
    success,     \* Spec: main()'s local `success`
    exitCode     \* Spec: the process exit status, -1 while running

generator == <<spec, errors, warnings>>
caller == <<calls, lastCall, ret>>
process == <<pc, args, env, created, report, printed, attempted, htmlRuns, success, exitCode>>
vars == <<file, spec, errors, warnings, calls, lastCall, ret,
          pc, args, env, created, report, printed, attempted, htmlRuns, success, exitCode>>

(***************************************************************************)
(* The validator.  Each operator takes the generator's fields and returns  *)
(* the fields after the call, with the returned value.                     *)
(***************************************************************************)
\* the first index i with fields[i] not in present, 0 when there is none
RECURSIVE FirstMissingFrom(_, _, _)
FirstMissingFrom(fields, present, i) ==
    IF i > Len(fields) THEN 0
    ELSE IF fields[i] \notin present THEN i
    ELSE FirstMissingFrom(fields, present, i + 1)

FirstMissing(fields, present) == FirstMissingFrom(fields, present, 1)

\* any(param.get('name') == 'intersection_id' and param.get('in') == 'path' ...)
HasIntersectionParam(parameters) ==
    \E i \in 1..Len(parameters) :
        parameters[i].name = "intersection_id" /\ parameters[i].in = "path"

\* the inner loop `for method in methods.values()` of one path item
RECURSIVE MethodWarnings(_, _, _)
MethodWarnings(path, methods, w) ==
    IF methods = <<>> THEN w
    ELSE LET op == Head(methods).op
             w1 == IF op.hasParameters /\ ~HasIntersectionParam(op.parameters)
                   THEN Append(w, Msg("Path {path} should have intersection_id path parameter", path))
                   ELSE w
         IN  MethodWarnings(path, Tail(methods), w1)

\* the loop `for path in self.spec.get('paths', {})`
RECURSIVE PathWarnings(_, _)
PathWarnings(paths, w) ==
    IF paths = <<>> THEN w
    ELSE LET item == Head(paths)
             w1 == IF ContainsIntersectionId(item.path)
                   THEN MethodWarnings(item.path, item.methods, w)
                   ELSE w
         IN  PathWarnings(Tail(paths), w1)

found_endpoints(paths) == { paths[i].path : i \in 1..Len(paths) }

\* the loop `for expected in expected_endpoints`
RECURSIVE MissingEndpointWarnings(_, _, _)
MissingEndpointWarnings(found, i, w) ==
    IF i > Len(expected_endpoints) THEN w
    ELSE MissingEndpointWarnings(found, i + 1,
            IF expected_endpoints[i] \notin found
            THEN Append(w, Msg("Expected endpoint not found: ", expected_endpoints[i]))
            ELSE w)

\* validate_traffic_endpoints with the path-parameter findings recorded as
\* errors instead of warnings
validate_traffic_endpoints_AsErrors(s, e, w) ==
    [errors |-> PathWarnings(s.paths, e),
     warnings |-> MissingEndpointWarnings(found_endpoints(s.paths), 1, w)]

validate_traffic_endpoints(s, e, w) ==
    [errors |-> e,
     warnings |-> MissingEndpointWarnings(found_endpoints(s.paths), 1,
                                          PathWarnings(s.paths, w))]

validate_openapi_spec(s, e, w) ==
    IF s.typ # "dict"
    THEN \* `field not in None` raises TypeError
         [errors |-> e, warnings |-> w, ret |-> "raised"]
    ELSE LET m1 == FirstMissing(required_fields, s.keys)
             m2 == FirstMissing(info_required, s.info)
         IN  IF m1 # 0
             THEN [errors |-> Append(e, Msg("Missing required field: ", required_fields[m1])),
                   warnings |-> w, ret |-> "False"]
             ELSE IF m2 # 0
             THEN [errors |-> Append(e, Msg("Missing required info field: ", info_required[m2])),
                   warnings |-> w, ret |-> "False"]
             ELSE LET v == validate_traffic_endpoints(s, e, w)
                  IN  [errors |-> v.errors, warnings |-> v.warnings,
                       ret |-> IF Len(v.errors) = 0 THEN "True" ELSE "False"]

\* str(e) of the exception load_openapi_spec catches
Cause(f) ==
    CASE f.status = "missing" -> "No such file or directory"
      [] f.status = "unreadable" -> "Permission denied"
      [] f.status = "syntax" -> "could not parse"
      [] OTHER -> "argument of type 'NoneType' is not iterable"

\* load_openapi_spec with an except clause that records nothing
load_openapi_spec_Silent(f, s, e, w) ==
    IF f.status # "ok"
    THEN [spec |-> s, errors |-> e, warnings |-> w, ret |-> "False"]
    ELSE LET v == validate_openapi_spec(f.content, e, w)
         IN  [spec |-> f.content, errors |-> v.errors, warnings |-> v.warnings,
              ret |-> IF v.ret = "raised" THEN "False" ELSE v.ret]

load_openapi_spec(f, s, e, w) ==
    IF f.status # "ok"
    THEN [spec |-> s, errors |-> Append(e, Msg("Failed to load OpenAPI spec: ", Cause(f))),
          warnings |-> w, ret |-> "False"]
    ELSE LET v == validate_openapi_spec(f.content, e, w)
         IN  IF v.ret = "raised"
             THEN [spec |-> f.content,
                   errors |-> Append(v.errors, Msg("Failed to load OpenAPI spec: ", Cause(f))),
                   warnings |-> v.warnings, ret |-> "False"]
             ELSE [spec |-> f.content, errors |-> v.errors, warnings |-> v.warnings,
                   ret |-> v.ret]

(***************************************************************************)
(* The format generators and the report builder.  The environment (the     *)
(* output directory, the template file, redoc-cli) is found as it is when   *)
(* the program first looks at it, and stays so for the rest of the run.    *)
(***************************************************************************)
NotProbed == [dir |-> "unknown", template |-> "unknown", redoc |-> "unknown"]

NoReport == [saved |-> FALSE, errors |-> <<>>, warnings |-> <<>>]

\* docs/api/templates/traffic-api-template.md: absent, present, or present and
\* failing to open or read
TemplateStates == {"absent", "present", "unreadable"}

\* `npx redoc-cli`: not installed, installed and bundling with a non-zero return
\* code, installed and bundling, or subprocess.run raising another exception
RedocStates == {"unavailable", "fails", "ok", "raises"}

generate_markdown_docs(e, w, template) ==
    CASE template = "absent" ->
            [errors |-> Append(e, Msg("Template file not found", "")),
             warnings |-> w, written |-> {}, ret |-> FALSE]
      [] template = "unreadable" ->
            [errors |-> Append(e, Msg("Failed to generate Markdown docs: ", "Permission denied")),
             warnings |-> w, written |-> {}, ret |-> FALSE]
      [] OTHER ->
            [errors |-> e, warnings |-> w,
             written |-> {"traffic-api-documentation.md"}, ret |-> TRUE]

generate_html_docs(e, w, redoc) ==
    CASE redoc = "unavailable" ->
            [errors |-> e,
             warnings |-> Append(w, Msg("redoc-cli not available, skipping HTML generation", "")),
             written |-> {}, ret |-> FALSE]
      [] redoc = "fails" ->
            [errors |-> Append(e, Msg("redoc-cli failed: ", "stderr")),
             warnings |-> w, written |-> {}, ret |-> FALSE]
      [] redoc = "raises" ->
            [errors |-> Append(e, Msg("Failed to generate HTML docs: ", "Permission denied")),
             warnings |-> w, written |-> {}, ret |-> FALSE]
      [] OTHER ->
            [errors |-> e, warnings |-> w,
             written |-> {"traffic-api-documentation.html"}, ret |-> TRUE]

\* generate_pdf_docs that does not look at what generate_html_docs returned
generate_pdf_docs_IgnoresHtml(e, w, redoc) ==
    LET h == generate_html_docs(e, w, redoc)
    IN  [errors |-> h.errors,
         warnings |-> Append(h.warnings,
             Msg("PDF generation requires additional setup with puppeteer or similar tools. HTML documentation was generated successfully.", "")),
         written |-> h.written, ret |-> TRUE]

generate_pdf_docs(e, w, redoc) ==
    LET h == generate_html_docs(e, w, redoc)
    IN  IF ~h.ret THEN h
        ELSE [errors |-> h.errors,
              warnings |-> Append(h.warnings,
                  Msg("PDF generation requires additional setup with puppeteer or similar tools. HTML documentation was generated successfully.", "")),
              written |-> h.written, ret |-> TRUE]

\* generate_validation_report and save_validation_report: the report lists
\* every entry of errors and of warnings
generate_validation_report(e, w) == [saved |-> TRUE, errors |-> e, warnings |-> w]

(***************************************************************************)
(* SpecValidator: a caller with one generator object.                      *)
(***************************************************************************)
\* main() has not started
Idle ==
    /\ pc = "idle"
    /\ args = [format |-> "all", validate_only |-> FALSE]
    /\ env = NotProbed
    /\ created = {}
    /\ report = NoReport
    /\ printed = <<>>
    /\ attempted = <<>>
    /\ htmlRuns = 0
    /\ success = TRUE
    /\ exitCode = -1

\* __init__
Fresh ==
    /\ spec = NoneDoc
    /\ errors = <<>>
    /\ warnings = <<>>

InitValidator ==
    /\ file \in FilesOf(Docs)
    /\ Fresh
    /\ calls = 0
    /\ lastCall = "none"
    /\ ret = "none"
    /\ Idle

CallLoad ==
    /\ pc = "idle"
    /\ calls < MaxCalls
    /\ LET r == load_openapi_spec(file, spec, errors, warnings)
       IN  /\ spec' = r.spec
           /\ errors' = r.errors
           /\ warnings' = r.warnings
           /\ ret' = r.ret
    /\ calls' = calls + 1
    /\ lastCall' = "load_openapi_spec"
    /\ UNCHANGED <<file, process>>

CallValidate ==
    /\ pc = "idle"
    /\ calls < MaxCalls
    /\ LET r == validate_openapi_spec(spec, errors, warnings)
       IN  /\ errors' = r.errors
           /\ warnings' = r.warnings
           /\ ret' = r.ret
    /\ calls' = calls + 1
    /\ lastCall' = "validate_openapi_spec"
    /\ UNCHANGED <<file, spec, process>>

NextValidator == CallLoad \/ CallValidate

SpecValidator == InitValidator /\ [][NextValidator]_vars

(***************************************************************************)
(* Spec: one run of main().                                                *)
(***************************************************************************)
Formats == {"markdown", "html", "pdf", "all"}

\* the documents main() is run on: `components` is complete in all of them
MainDocs == DocsWith({RequiredModels}, {TRUE})

\* after parser.parse_args()
Init ==
    /\ file \in FilesOf(MainDocs)
    /\ Fresh
    /\ calls = 0
    /\ lastCall = "none"
    /\ ret = "none"
    /\ pc = "makedirs"
    /\ args \in [format : Formats, validate_only : BOOLEAN]
    /\ env = NotProbed
    /\ created = {}
    /\ report = NoReport
    /\ printed = <<>>
    /\ attempted = <<>>
    /\ htmlRuns = 0
    /\ success = TRUE
    /\ exitCode = -1

\* main() giving up at the first format step that fails
StepAfter_AbortOnFailure(step, ok) ==
    IF ~ok THEN "done"
    ELSE CASE step = "markdown" -> "html"
           [] step = "html" -> "pdf"
           [] OTHER -> "report"

\* where main() goes after a format step that returned ok
StepAfter(step, ok) ==
    CASE step = "markdown" -> "html"
      [] step = "html" -> "pdf"
      [] OTHER -> "report"

\* os.makedirs(args.output, exist_ok=True) and the generator's construction
Makedirs ==
    /\ pc = "makedirs"
    /\ \E d \in {"exists", "absent"} :
          /\ env' = [env EXCEPT !.dir = d]
          /\ created' = IF d = "absent" THEN {"output_dir"} ELSE {}
    /\ pc' = "load"
    /\ UNCHANGED <<file, generator, caller, args, report, printed, attempted,
                   htmlRuns, success, exitCode>>

\* if not generator.load_openapi_spec(): print the errors, sys.exit(1)
Load ==
    /\ pc = "load"
    /\ LET r == load_openapi_spec(file, spec, errors, warnings)
       IN  /\ spec' = r.spec
           /\ errors' = r.errors
           /\ warnings' = r.warnings
           /\ ret' = r.ret
           /\ IF r.ret = "True"
              THEN /\ pc' = IF args.validate_only THEN "validate_only" ELSE "markdown"
                   /\ UNCHANGED <<printed, exitCode>>
              ELSE /\ pc' = "done"
                   /\ printed' = printed \o r.errors
                   /\ exitCode' = 1
    /\ calls' = calls + 1
    /\ lastCall' = "load_openapi_spec"
    /\ UNCHANGED <<file, args, env, created, report, attempted, htmlRuns, success>>

\* if args.validate_only: save the report, sys.exit(0 if not generator.errors else 1)
ValidateOnly ==
    /\ pc = "validate_only"
    /\ report' = generate_validation_report(errors, warnings)
    /\ created' = created \cup {"validation-report.md"}
    /\ exitCode' = IF errors = <<>> THEN 0 ELSE 1
    /\ pc' = "done"
    /\ UNCHANGED <<file, generator, caller, args, env, printed, attempted, htmlRuns, success>>

\* if args.format in ['markdown', 'all']: if not generator.generate_markdown_docs(): ...
Markdown ==
    /\ pc = "markdown"
    /\ IF args.format \in {"markdown", "all"}
       THEN \E t \in TemplateStates :
              LET r == generate_markdown_docs(errors, warnings, t)
              IN  /\ env' = [env EXCEPT !.template = t]
                  /\ errors' = r.errors
                  /\ warnings' = r.warnings
                  /\ created' = created \cup r.written
                  /\ success' = (success /\ r.ret)
                  /\ attempted' = Append(attempted, "markdown")
                  /\ pc' = StepAfter("markdown", r.ret)
       ELSE /\ pc' = StepAfter("markdown", TRUE)
            /\ UNCHANGED <<env, errors, warnings, created, success, attempted>>
    /\ UNCHANGED <<file, spec, caller, args, report, printed, htmlRuns, exitCode>>

\* if args.format in ['html', 'all']: if not generator.generate_html_docs(): ...
Html ==
    /\ pc = "html"
    /\ IF args.format \in {"html", "all"}
       THEN \E x \in RedocStates :
              LET r == generate_html_docs(errors, warnings, x)
              IN  /\ env' = [env EXCEPT !.redoc = x]
                  /\ errors' = r.errors
                  /\ warnings' = r.warnings
                  /\ created' = created \cup r.written
                  /\ success' = (success /\ r.ret)
                  /\ attempted' = Append(attempted, "html")
                  /\ htmlRuns' = htmlRuns + 1
                  /\ pc' = StepAfter("html", r.ret)
       ELSE /\ pc' = StepAfter("html", TRUE)
            /\ UNCHANGED <<env, errors, warnings, created, success, attempted, htmlRuns>>
    /\ UNCHANGED <<file, spec, caller, args, report, printed, exitCode>>

\* if args.format in ['pdf', 'all']: if not generator.generate_pdf_docs(): ...
Pdf ==
    /\ pc = "pdf"
    /\ IF args.format \in {"pdf", "all"}
       THEN \E x \in RedocStates :
              /\ env.redoc \in {"unknown", x}
              /\ LET r == generate_pdf_docs(errors, warnings, x)
                 IN  /\ env' = [env EXCEPT !.redoc = x]
                     /\ errors' = r.errors
                     /\ warnings' = r.warnings
                     /\ created' = created \cup r.written
                     /\ success' = (success /\ r.ret)
                     /\ attempted' = Append(attempted, "pdf")
                     /\ htmlRuns' = htmlRuns + 1
                     /\ pc' = StepAfter("pdf", r.ret)
       ELSE /\ pc' = StepAfter("pdf", TRUE)
            /\ UNCHANGED <<env, errors, warnings, created, success, attempted, htmlRuns>>
    /\ UNCHANGED <<file, spec, caller, args, report, printed, exitCode>>

\* the report, then the summary: sys.exit(1) unless success
Report ==
    /\ pc = "report"
    /\ report' = generate_validation_report(errors, warnings)
    /\ created' = created \cup {"validation-report.md"}
    /\ attempted' = Append(attempted, "report")
    /\ printed' = printed \o (IF success THEN warnings ELSE errors)
    /\ exitCode' = IF success THEN 0 ELSE 1
    /\ pc' = "done"
    /\ UNCHANGED <<file, generator, caller, args, env, htmlRuns, success>>

Next ==
    \/ Makedirs
    \/ Load
    \/ ValidateOnly
    \/ Markdown
    \/ Html
    \/ Pdf
    \/ Report

Spec == Init /\ [][Next]_vars

(***************************************************************************)
(* Properties of main() (specification Spec).                              *)
(***************************************************************************)
Done == pc = "done"

Parsed == file.status = "ok" /\ file.content.typ = "dict"

doc == file.content

CountOf(seq, msg) == Cardinality({ i \in 1..Len(seq) : seq[i] = msg })

CountMentions(seq, word) == Cardinality({ i \in 1..Len(seq) : Mentions(seq[i], word) })

\* C1 (as claimed): under --validate-only main() exits 0 when the spec is valid
\* and 1 when it is not, runs no format generator, and for a spec without the
\* top-level field `paths` exits 1 and prints an error message containing `paths`.
C1_ValidateOnlyExit ==
    (Done /\ args.validate_only) =>
        /\ exitCode = (IF ret = "True" THEN 0 ELSE 1)
        /\ attempted = <<>>
        /\ created \subseteq {"output_dir", "validation-report.md"}
        /\ (Parsed /\ "paths" \notin doc.keys) =>
              /\ exitCode = 1
              /\ \E i \in 1..Len(printed) : Mentions(printed[i], "paths")

\* C2 (as claimed): when the process ends, its exit status is 1 exactly when
\* errors is non-empty; a run that recorded only warnings exits with 0.
C2_ExitStatusReflectsErrors ==
    Done => (exitCode = 1 <=> errors # <<>>)

\* C3 (as claimed, on the runs whose file was read and parsed as a mapping):
\* whatever the exit path, when main() ends a validation report has been saved
\* and it holds every entry of errors and of warnings.
C3_ReportHoldsEverything ==
    (Done /\ Parsed) =>
        /\ report.saved
        /\ report.errors = errors
        /\ report.warnings = warnings

\* the format steps --format selects, in main()'s order
SelectedSteps(format) ==
    (IF format \in {"markdown", "all"} THEN <<"markdown">> ELSE <<>>)
    \o (IF format \in {"html", "all"} THEN <<"html">> ELSE <<>>)
    \o (IF format \in {"pdf", "all"} THEN <<"pdf">> ELSE <<>>)

IsPrefix(s, t) == Len(s) <= Len(t) /\ SubSeq(t, 1, Len(s)) = s

\* C4: once load_openapi_spec has succeeded and --validate-only is not set, a
\* failing format step never stops the run: main() is never stuck before its
\* end, the steps it has attempted are always a prefix of the selected formats in
\* the order markdown, html, pdf, and when it ends it has attempted every
\* selected format and then saved a report that holds the errors and warnings of
\* all of them.
C4_FormatsThenReport ==
    (ret = "True" /\ ~args.validate_only) =>
        /\ ~Done => ENABLED Next
        /\ IsPrefix(attempted, SelectedSteps(args.format) \o <<"report">>)
        /\ Done =>
              /\ attempted = SelectedSteps(args.format) \o <<"report">>
              /\ report = generate_validation_report(errors, warnings)
              /\ "validation-report.md" \in created
              /\ exitCode \in {0, 1}

\* C4 witness: a run with --format all in which Markdown, HTML and PDF all
\* failed, and the report was still saved after the PDF step.
C4_Witness ==
    /\ Done
    /\ args.format = "all"
    /\ env.template = "absent"
    /\ env.redoc = "fails"
    /\ attempted = <<"markdown", "html", "pdf", "report">>
    /\ Len(report.errors) = 3

LoadFailed == file.status # "ok"

\* C5 (amended): when loading the file fails, load_openapi_spec records one
\* error that carries the cause and returns False, and main() exits with 1
\* having run no generator and written no Markdown, HTML, PDF or report file; the
\* only thing the run creates is the output directory, when it did not exist yet.
C5_LoadFailureAborts ==
    (Done /\ LoadFailed) =>
        /\ errors = << Msg("Failed to load OpenAPI spec: ", Cause(file)) >>
        /\ ret = "False"
        /\ printed = errors
        /\ exitCode = 1
        /\ attempted = <<>>
        /\ report = NoReport
        /\ created = (IF env.dir = "absent" THEN {"output_dir"} ELSE {})

\* C5 witness: a file with invalid syntax, in a run that created the output
\* directory and nothing else.
C5_Witness ==
    /\ Done
    /\ file.status = "syntax"
    /\ exitCode = 1
    /\ created = {"output_dir"}
    /\ Len(errors) = 1

\* C5 (as claimed): when loading the file fails, main() exits with 1 and nothing
\* has been created on the filesystem before the abort.
C5_NothingCreated ==
    (Done /\ LoadFailed) =>
        /\ Len(errors) = 1
        /\ exitCode = 1
        /\ report = NoReport
        /\ created = {}

(***************************************************************************)
(* Properties of the validator (specification SpecValidator): the state    *)
(* after the first load_openapi_spec on a fresh generator.                 *)
(***************************************************************************)
FirstPass == calls = 1 /\ lastCall = "load_openapi_spec" /\ Parsed

\* the required fields the document lacks
AbsentTop == { f \in {"openapi", "info", "paths"} : f \notin doc.keys }

AbsentInfo == IF "info" \in doc.keys THEN {"title", "version"} \ doc.info ELSE {}

\* C6 (as claimed): the validator records one error for each absent top-level
\* field and one for each absent info field, so the number of missing-field
\* errors equals the number of absent fields.
C6_OneErrorPerAbsentField ==
    FirstPass =>
        /\ \A f \in {"openapi", "info", "paths"} :
              CountOf(errors, Msg("Missing required field: ", f))
                = (IF f \in AbsentTop THEN 1 ELSE 0)
        /\ \A f \in {"title", "version"} :
              CountOf(errors, Msg("Missing required info field: ", f))
                = (IF f \in AbsentInfo THEN 1 ELSE 0)
        /\ Len(errors) = Cardinality(AbsentTop) + Cardinality(AbsentInfo)

\* C7 (as claimed): for every spec whose `info` lacks `version`, the errors
\* include exactly one error mentioning `version`, whatever the other fields.
C7_OneVersionError ==
    (FirstPass /\ "version" \in AbsentInfo) => CountMentions(errors, "version") = 1

\* the errors that name a required data model
ModelErrors(e) == { i \in 1..Len(e) : e[i].arg \in RequiredModels }

\* C8 (as claimed, on the documents that have every required field): removing
\* one required data model from components.schemas adds exactly one error,
\* naming that model; a document without the three models has exactly three
\* model errors and is not valid.
C8_OneErrorPerMissingModel ==
    (FirstPass /\ AbsentTop = {} /\ AbsentInfo = {}) =>
        /\ \A m \in RequiredModels :
              CountMentions(errors, m) = (IF m \in doc.schemas THEN 0 ELSE 1)
        /\ \A m \in doc.schemas :
              LET without == [file EXCEPT !.content.schemas = @ \ {m}]
                  r == load_openapi_spec(without, NoneDoc, <<>>, <<>>)
              IN  /\ Len(r.errors) = Len(errors) + 1
                  /\ CountMentions(r.errors, m) = 1
        /\ doc.schemas = {} =>
              /\ Cardinality(ModelErrors(errors)) = 3
              /\ ret = "False"

\* a document with every required field, endpoint and model and an apiKey scheme
WellFormed(d) ==
    /\ d.typ = "dict"
    /\ d.keys = {"openapi", "info", "paths"}
    /\ d.info = {"title", "version"}
    /\ \A i \in 1..Len(expected_endpoints) : expected_endpoints[i] \in found_endpoints(d.paths)
    /\ RequiredModels \subseteq d.schemas
    /\ d.apiKey

\* C9: for every well-formed document, the first load_openapi_spec on a fresh
\* generator records no error and returns True.
C9_WellFormedIsValid ==
    (FirstPass /\ WellFormed(doc)) => (errors = <<>> /\ ret = "True")

\* C9 witness: a well-formed document whose {intersection_id} path has two
\* operations with a `parameters` list that lacks the path parameter: it was
\* loaded as valid, with warnings only.
C9_Witness ==
    /\ FirstPass
    /\ WellFormed(doc)
    /\ ret = "True"
    /\ spec = doc
    /\ Len(warnings) = 2

\* the operations of a path item that do not declare the path parameter
Undeclared(item) ==
    { i \in 1..Len(item.methods) : ~HasIntersectionParam(item.methods[i].op.parameters) }

\* C10 (as claimed): for every path with the {intersection_id} placeholder the
\* validator records one warning for each operation that does not declare the
\* path parameter, operations without `parameters` included, and no error.
C10_WarningPerUndeclaredOperation ==
    (FirstPass /\ AbsentTop = {} /\ AbsentInfo = {}) =>
        /\ \A i \in 1..Len(doc.paths) :
              ContainsIntersectionId(doc.paths[i].path) =>
                CountOf(warnings,
                        Msg("Path {path} should have intersection_id path parameter",
                            doc.paths[i].path))
                  = Cardinality(Undeclared(doc.paths[i]))
        /\ errors = <<>>

\* what one load_openapi_spec on a fresh generator records for the file
SinglePass == load_openapi_spec(file, NoneDoc, <<>>, <<>>)

\* C11 (as claimed, on the files that parse as a mapping): however many times
\* load_openapi_spec and validate_openapi_spec have run on one generator object,
\* once the document is loaded its errors and warnings are those of a single
\* pass on a fresh generator, with nothing carried over or duplicated.
C11_EachPassStartsEmpty ==
    (Parsed /\ calls >= 1 /\ spec = doc /\ ret # "raised") =>
        /\ errors = SinglePass.errors
        /\ warnings = SinglePass.warnings
        /\ ret = SinglePass.ret

(***************************************************************************)
(* PDF generation (specification Spec).                                    *)
(***************************************************************************)
PdfSetupWarning ==
    Msg("PDF generation requires additional setup with puppeteer or similar tools. HTML documentation was generated successfully.", "")

RedocWarning == Msg("redoc-cli not available, skipping HTML generation", "")

HtmlSelected == args.format \in {"html", "all"}

PdfSelected == args.format \in {"pdf", "all"}

\* C12: in a generation run that has ended, generate_html_docs ran once for
\* each of the html and pdf steps selected (twice with --format all); the pdf
\* step succeeded exactly when its HTML generation did, it then left exactly one
\* PDF-setup warning and never a PDF file; and with redoc-cli unavailable every
\* HTML run left its own 'redoc-cli not available' warning in the saved report,
\* two of them with --format all.
C12_PdfFollowsHtml ==
    (Done /\ ret = "True" /\ ~args.validate_only) =>
        /\ htmlRuns = (IF HtmlSelected THEN 1 ELSE 0) + (IF PdfSelected THEN 1 ELSE 0)
        /\ created \subseteq {"output_dir", "traffic-api-documentation.md",
                               "traffic-api-documentation.html", "validation-report.md"}
        /\ CountOf(report.warnings, PdfSetupWarning)
             = (IF PdfSelected /\ env.redoc = "ok" THEN 1 ELSE 0)
        /\ args.format = "pdf" =>
             /\ success <=> "traffic-api-documentation.html" \in created
             /\ success <=> env.redoc = "ok"
             /\ exitCode = (IF success THEN 0 ELSE 1)
        /\ CountOf(report.warnings, RedocWarning)
             = (IF env.redoc = "unavailable" THEN htmlRuns ELSE 0)
        /\ (args.format = "all" /\ env.redoc = "unavailable") =>
             CountOf(report.warnings, RedocWarning) = 2

\* C12 witness: --format all with redoc-cli unavailable: HTML generation ran
\* twice and the saved report holds the redoc-cli warning twice.
C12_Witness ==
    /\ Done
    /\ args.format = "all"
    /\ env.redoc = "unavailable"
    /\ htmlRuns = 2
    /\ CountOf(report.warnings, RedocWarning) = 2
    /\ CountOf(report.warnings, PdfSetupWarning) = 0

====
